---- MODULE Spec2Model ----
EXTENDS Integers, Sequences, FiniteSets, TLC

\* wav-files-denoise (src/src/main.rs): one sequential run of main().
\* A path is a record [abs, comps]: whether it has a root, and its normal
\* components.  A component (a file name) is a sequence of characters, so that
\* Path::extension is computed the way std computes it.

VARIABLES args, fs, pc, pos, input_path, output_path, status,
          processed, skipped, stderr, stdout, exit_code, dirs, validated, spawned

vars == <<args, fs, pc, pos, input_path, output_path, status,
          processed, skipped, stderr, stdout, exit_code, dirs, validated, spawned>>

\* ---------------------------------------------------------------- bounds
\* exit codes a child may return are 0..MaxExitCode
MaxExitCode == 1
\* at most this many entries exist beneath the input root
MaxEntries == 4

\* ---------------------------------------------------------------- options
None == <<>>
Some(x) == <<x>>
IsSome(o) == Len(o) = 1
Unwrap(o) == o[1]

\* ---------------------------------------------------------------- names
A_WAV == <<"a", ".", "w", "a", "v">>
DOT_WAV == <<".", "w", "a", "v">>
B_UPPER == <<"b", ".", "W", "A", "V">>
D_WAV == <<"d", ".", "w", "a", "v">>
R_WAV == <<"r", ".", "w", "a", "v">>
SUB == <<"s", "u", "b">>
IN_DIR == <<"i", "n">>
OUT_DIR == <<"o", "u", "t">>
BIN == <<"b", "i", "n">>
M_BIN == <<"m", ".", "b", "i", "n">>
NNNOISELESS == <<"n", "n", "n", "o", "i", "s", "e", "l", "e", "s", "s">>
WAV == <<"w", "a", "v">>

\* ---------------------------------------------------------------- std::path
P(a, c) == [abs |-> a, comps |-> c]

\* Path::join / PathBuf::push: an absolute argument replaces the base
Join(base, rel) ==
    IF rel.abs THEN rel ELSE P(base.abs, base.comps \o rel.comps)

\* Path::strip_prefix: component-wise, None when base is no prefix
StripPrefix(p, base) ==
    IF /\ p.abs = base.abs
       /\ Len(base.comps) <= Len(p.comps)
       /\ SubSeq(p.comps, 1, Len(base.comps)) = base.comps
    THEN Some(P(FALSE, SubSeq(p.comps, Len(base.comps) + 1, Len(p.comps))))
    ELSE None

\* Path::parent: None for the root and for the empty path
Parent(p) ==
    IF p.comps = <<>> THEN None
    ELSE Some(P(p.abs, SubSeq(p.comps, 1, Len(p.comps) - 1)))

\* Path::file_name
FileName(p) == IF p.comps = <<>> THEN None ELSE Some(p.comps[Len(p.comps)])

\* index of the last '.' of a name, 0 when it has none
LastDot(name) ==
    LET ds == {i \in 1..Len(name) : name[i] = "."}
    IN IF ds = {} THEN 0 ELSE CHOOSE i \in ds : \A j \in ds : j <= i

\* Path::extension: the part after the last '.', None when the name has no
\* '.' or only a leading one
Extension(p) ==
    IF ~IsSome(FileName(p)) THEN None
    ELSE LET name == Unwrap(FileName(p))
             d == LastDot(name)
         IN IF d <= 1 THEN None ELSE Some(SubSeq(name, d + 1, Len(name)))

\* a mirror that keeps only the file name of the relative path
OutputPath_Flat(output_dir, relative) ==
    IF relative.comps = <<>> THEN output_dir
    ELSE P(output_dir.abs, output_dir.comps \o <<relative.comps[Len(relative.comps)]>>)

\* args.output_dir.join(relative)
OutputPath(output_dir, relative) == Join(output_dir, relative)

\* the path and all its ancestors that have a name
Ancestors(p) == {P(p.abs, SubSeq(p.comps, 1, k)) : k \in 1..Len(p.comps)}

\* a directory of the output side exists: "/" and the working directory always do
DirExists(p) == p.comps = <<>> \/ p \in dirs

\* ---------------------------------------------------------------- hound
\* the fields of hound::WavSpec that validate_wav reads
Channels == {1, 2}
SampleRates == {16000, 44100}
BitsPerSample == {16, 24}
WavSpecs == [channels : Channels, sample_rate : SampleRates, bits_per_sample : BitsPerSample]
ValidSpec == [channels |-> 1, sample_rate |-> 16000, bits_per_sample |-> 16]
\* what a file holds: Some(spec) when WavReader::open can parse it, else None
Contents == {None} \cup {Some(s) : s \in WavSpecs}

\* ---------------------------------------------------------------- file system
\* the entries that may exist beneath the input root, in the order the walk
\* yields them (a directory, then what it contains); parent = 0 is the root.
\* walkdir leaves the order of siblings to the file system: one order is fixed
\* here.  Symbolic links are not followed by the walk and are not regular
\* files, so they are left out.
Universe == <<
    [rel |-> <<A_WAV>>,        kind |-> "file", parent |-> 0],
    [rel |-> <<B_UPPER>>,      kind |-> "file", parent |-> 0],
    [rel |-> <<D_WAV>>,        kind |-> "dir",  parent |-> 0],
    [rel |-> <<SUB>>,          kind |-> "dir",  parent |-> 0],
    [rel |-> <<SUB, A_WAV>>,   kind |-> "file", parent |-> 4],
    [rel |-> <<SUB, DOT_WAV>>, kind |-> "file", parent |-> 4] >>
Ids == 1..Len(Universe)
FileIds == {i \in Ids : Universe[i].kind = "file"}
DirIds == {i \in Ids : Universe[i].kind = "dir"}

\* the path under which the walk reports entry i (0 is the root itself)
EntryPath(root, i) == IF i = 0 THEN root ELSE Join(root, P(FALSE, Universe[i].rel))

\* the sets of entries that can exist together: a child needs its directory
Trees ==
    {pr \in SUBSET Ids :
        /\ Cardinality(pr) <= MaxEntries
        /\ \A i \in pr : Universe[i].parent # 0 => Universe[i].parent \in pr}

\* the files whose name selects them for validation; their content is drawn
\* from all of Contents, every other existing file holds a valid recording
Named(pr) == {i \in pr \cap FileIds : Universe[i].rel[Len(Universe[i].rel)] = A_WAV}
ContentOn(pr, c) ==
    [i \in FileIds \cup {0} |->
        IF i \in DOMAIN c THEN c[i]
        ELSE IF i \in pr THEN Some(ValidSpec) ELSE None]

\* the file systems a run may start on: no input root, a root that is a
\* regular file, or a directory tree
FileSystems ==
    {[root |-> "missing", present |-> {}, unreadable |-> {}, content |-> ContentOn({}, <<>>)]}
    \cup {[root |-> "file", present |-> {}, unreadable |-> {},
           content |-> ContentOn({}, [i \in {0} |-> c])] : c \in Contents}
    \cup UNION {UNION {
            {[root |-> "dir", present |-> pr, unreadable |-> u, content |-> ContentOn(pr, c)] :
                c \in [Named(pr) -> Contents]} :
            u \in SUBSET (pr \cap DirIds)} :
         pr \in Trees}

\* the regular files that exist at or beneath the input root
RegularFiles(root, f) ==
    IF f.root = "file" THEN {root}
    ELSE {EntryPath(root, i) : i \in f.present \cap FileIds}

\* the content of the regular file at path p
ContentOf(root, f, p) ==
    IF f.root = "file" THEN f.content[0]
    ELSE LET i == CHOOSE j \in f.present \cap FileIds : EntryPath(root, j) = p
         IN f.content[i]

\* ---------------------------------------------------------------- walkdir
Ok(p, t) == [ok |-> TRUE, path |-> p, file_type |-> t]
Err == [ok |-> FALSE, path |-> P(FALSE, <<>>), file_type |-> "none"]

\* an entry is reached when every directory above it can be read
Reached(f, i) ==
    LET par == Universe[i].parent
    IN par = 0 \/ (par \notin f.unreadable /\ Universe[par].parent = 0)

RECURSIVE WalkFrom(_, _, _)
WalkFrom(root, f, i) ==
    IF i > Len(Universe) THEN <<>>
    ELSE (IF i \in f.present /\ Reached(f, i)
          THEN <<Ok(EntryPath(root, i), Universe[i].kind)>>
               \o (IF i \in f.unreadable THEN <<Err>> ELSE <<>>)
          ELSE <<>>)
         \o WalkFrom(root, f, i + 1)

\* WalkDir::new(root).into_iter(): the items the iterator yields, errors
\* included: a missing root is one Err, an unreadable directory is yielded and
\* followed by an Err in place of its contents
WalkDir(root, f) ==
    CASE f.root = "missing" -> <<Err>>
      [] f.root = "file" -> <<Ok(root, "file")>>
      [] OTHER -> <<Ok(root, "dir")>> \o WalkFrom(root, f, 1)

\* the three adaptors of the loop header, as a predicate on one item
IsOk(e) == e.ok
IsFile(e) == e.file_type = "file"
HasWavExtension(e) == Extension(e.path) = Some(WAV)
Selected(e) == IsOk(e) /\ IsFile(e) /\ HasWavExtension(e)

\* the entries the loop body runs on, in order
RECURSIVE Filter(_)
Filter(s) ==
    IF s = <<>> THEN <<>>
    ELSE (IF Selected(Head(s)) THEN <<Head(s)>> ELSE <<>>) \o Filter(Tail(s))

Entries == Filter(WalkDir(args.input_dir, fs))

\* ---------------------------------------------------------------- validate_wav
\* a validator that forgets the sample width
validate_wav_NoBits(content) ==
    IF ~IsSome(content) THEN "fail"
    ELSE LET spec == Unwrap(content)
         IN IF spec.channels = 1 /\ spec.sample_rate = 16000
            THEN "accept" ELSE "reject"

\* "fail" when the file cannot be opened or parsed, else whether the spec matches
validate_wav(content) ==
    IF ~IsSome(content) THEN "fail"
    ELSE LET spec == Unwrap(content)
         IN IF /\ spec.channels = 1
               /\ spec.sample_rate = 16000
               /\ spec.bits_per_sample = 16
            THEN "accept" ELSE "reject"

\* ---------------------------------------------------------------- command line
ArgSets ==
    [input_dir : {P(FALSE, <<IN_DIR>>), P(TRUE, <<IN_DIR>>), P(FALSE, <<R_WAV>>)},
     output_dir : {P(FALSE, <<OUT_DIR>>), P(TRUE, <<OUT_DIR>>)},
     nnnoiseless_path : {None, Some(P(TRUE, <<BIN, NNNOISELESS>>))},
     model_path : {None, Some(P(TRUE, <<M_BIN>>))}]

\* unwrap_or_else(|| PathBuf::from("nnnoiseless"))
nnnoiseless_cmd ==
    IF IsSome(args.nnnoiseless_path) THEN Unwrap(args.nnnoiseless_path)
    ELSE P(FALSE, <<NNNOISELESS>>)

\* one argument of the child: a path, after an optional literal prefix
Arg(prefix, p) == [prefix |-> prefix, path |-> p]

\* an argument list with the model flag after the paths
CommandArgs_ModelLast(model, inp, out) ==
    <<Arg("", inp), Arg("", out)>>
    \o (IF IsSome(model) THEN <<Arg("--model=", Unwrap(model))>> ELSE <<>>)

\* the arguments given to Command, in order
CommandArgs(model, inp, out) ==
    (IF IsSome(model) THEN <<Arg("--model=", Unwrap(model))>> ELSE <<>>)
    \o <<Arg("", inp), Arg("", out)>>

\* ExitStatus values: exited with a code, or killed by a signal
ExitStatuses == [kind : {"exit"}, code : 0..MaxExitCode] \cup {[kind |-> "signal", code |-> 9]}
\* a test that takes any normal exit for success
Success_AnyExit(st) == st.kind = "exit"

\* ExitStatus::success
Success(st) == st.kind = "exit" /\ st.code = 0

\* ---------------------------------------------------------------- main
Init ==
    /\ args \in ArgSets
    /\ fs \in FileSystems
    /\ pc = "create_output_dir"
    /\ pos = 0
    /\ input_path = None
    /\ output_path = None
    /\ status = None
    /\ processed = 0
    /\ skipped = 0
    /\ stderr = <<>>
    /\ stdout = <<>>
    /\ exit_code = None
    /\ dirs = {}
    /\ validated = <<>>
    /\ spawned = <<>>

\* an error that is reported, after which the walk goes on
Fatal_Continue(msg, p) ==
    /\ pc' = "walk"
    /\ stderr' = Append(stderr, [msg |-> msg, path |-> p])
    /\ exit_code' = Some(1)

\* an error propagated by `?` out of main: the message, and a non-zero exit
Fatal(msg, p) ==
    /\ pc' = "fatal"
    /\ stderr' = Append(stderr, [msg |-> msg, path |-> p])
    /\ exit_code' = Some(1)

\* std::fs::create_dir_all(&args.output_dir)?
CreateOutputDir ==
    /\ pc = "create_output_dir"
    /\ \E ok \in BOOLEAN :
          /\ DirExists(args.output_dir) => ok
          /\ IF ok
             THEN /\ dirs' = dirs \cup Ancestors(args.output_dir)
                  /\ pc' = "walk"
                  /\ UNCHANGED <<stderr, exit_code>>
             ELSE /\ Fatal("Failed to create output directory", args.output_dir)
                  /\ UNCHANGED dirs
    /\ UNCHANGED <<args, fs, pos, input_path, output_path, status,
                   processed, skipped, stdout, validated, spawned>>

\* the loop header: the next selected entry, or the end of the walk
WalkNext ==
    /\ pc = "walk"
    /\ IF pos < Len(Entries)
       THEN /\ pos' = pos + 1
            /\ input_path' = Some(Entries[pos + 1].path)
            /\ pc' = "validate"
       ELSE /\ pc' = "summary"
            /\ UNCHANGED <<pos, input_path>>
    /\ UNCHANGED <<args, fs, output_path, status, processed, skipped,
                   stderr, stdout, exit_code, dirs, validated, spawned>>

\* if !validate_wav(&input_path)? { eprintln!; skipped += 1; continue }
Validate ==
    /\ pc = "validate"
    /\ LET p == Unwrap(input_path)
           r == validate_wav(ContentOf(args.input_dir, fs, p))
       IN /\ validated' = Append(validated, p)
          /\ CASE r = "fail" ->
                    /\ Fatal("Failed to open WAV file", p)
                    /\ UNCHANGED skipped
               [] r = "reject" ->
                    /\ stderr' = Append(stderr, [msg |-> "Skipping invalid WAV file", path |-> p])
                    /\ skipped' = skipped + 1
                    /\ pc' = "walk"
                    /\ UNCHANGED exit_code
               [] OTHER ->
                    /\ pc' = "map"
                    /\ UNCHANGED <<stderr, skipped, exit_code>>
    /\ UNCHANGED <<args, fs, pos, input_path, output_path, status,
                   processed, stdout, dirs, spawned>>

\* strip_prefix(&args.input_dir)? and args.output_dir.join(relative)
MapPath ==
    /\ pc = "map"
    /\ LET p == Unwrap(input_path)
           relative == StripPrefix(p, args.input_dir)
       IN IF IsSome(relative)
          THEN /\ output_path' = Some(OutputPath(args.output_dir, Unwrap(relative)))
               /\ pc' = "create_parent"
               /\ UNCHANGED <<stderr, exit_code>>
          ELSE /\ Fatal("Failed to compute relative path for", p)
               /\ UNCHANGED output_path
    /\ UNCHANGED <<args, fs, pos, input_path, status, processed, skipped,
                   stdout, dirs, validated, spawned>>

\* a mapper that drops the result of create_dir_all
CreateParent_IgnoreError ==
    /\ pc = "create_parent"
    /\ LET out == Unwrap(output_path)
           parent == Parent(out)
       IN IF ~IsSome(parent)
          THEN UNCHANGED dirs
          ELSE \E ok \in BOOLEAN :
                  /\ DirExists(Unwrap(parent)) => ok
                  /\ dirs' = IF ok THEN dirs \cup Ancestors(Unwrap(parent)) ELSE dirs
    /\ pc' = "spawn"
    /\ UNCHANGED <<args, fs, pos, input_path, output_path, status, stderr, exit_code,
                   processed, skipped, stdout, validated, spawned>>

\* if let Some(parent) = output_path.parent() { create_dir_all(parent)? }
CreateParent ==
    /\ pc = "create_parent"
    /\ LET out == Unwrap(output_path)
           parent == Parent(out)
       IN IF ~IsSome(parent)
          THEN /\ pc' = "spawn"
               /\ UNCHANGED <<dirs, stderr, exit_code>>
          ELSE \E ok \in BOOLEAN :
                  /\ DirExists(Unwrap(parent)) => ok
                  /\ IF ok
                     THEN /\ dirs' = dirs \cup Ancestors(Unwrap(parent))
                          /\ pc' = "spawn"
                          /\ UNCHANGED <<stderr, exit_code>>
                     ELSE /\ Fatal("Failed to create output directory for", out)
                          /\ UNCHANGED dirs
    /\ UNCHANGED <<args, fs, pos, input_path, output_path, status,
                   processed, skipped, stdout, validated, spawned>>

\* Command::new, the args, and cmd.status()?
Spawn ==
    /\ pc = "spawn"
    /\ LET inp == Unwrap(input_path)
           out == Unwrap(output_path)
       IN \/ /\ Fatal("Failed to execute nnnoiseless for", inp)
             /\ UNCHANGED <<spawned, status>>
          \/ \E st \in ExitStatuses :
                /\ spawned' = Append(spawned,
                      [program |-> nnnoiseless_cmd,
                       argv |-> CommandArgs(args.model_path, inp, out),
                       input |-> inp,
                       output |-> out,
                       parent_exists |-> (~IsSome(Parent(out)) \/ DirExists(Unwrap(Parent(out)))),
                       status |-> st])
                /\ status' = Some(st)
                /\ pc' = "account"
                /\ UNCHANGED <<stderr, exit_code>>
    /\ UNCHANGED <<args, fs, pos, input_path, output_path,
                   processed, skipped, stdout, dirs, validated>>

\* a loop body whose failure branch lacks the `continue`
Account_NoContinue ==
    /\ pc = "account"
    /\ IF ~Success(Unwrap(status))
       THEN /\ stderr' = Append(stderr, [msg |-> "Denoising failed for", path |-> Unwrap(input_path)])
            /\ skipped' = skipped + 1
       ELSE UNCHANGED <<stderr, skipped>>
    /\ processed' = processed + 1
    /\ pc' = "walk"
    /\ UNCHANGED <<args, fs, pos, input_path, output_path, status,
                   stdout, exit_code, dirs, validated, spawned>>

\* if !status.success() { eprintln!; skipped += 1; continue } processed += 1
Account ==
    /\ pc = "account"
    /\ IF ~Success(Unwrap(status))
       THEN /\ stderr' = Append(stderr, [msg |-> "Denoising failed for", path |-> Unwrap(input_path)])
            /\ skipped' = skipped + 1
            /\ UNCHANGED processed
       ELSE /\ processed' = processed + 1
            /\ UNCHANGED <<stderr, skipped>>
    /\ pc' = "walk"
    /\ UNCHANGED <<args, fs, pos, input_path, output_path, status,
                   stdout, exit_code, dirs, validated, spawned>>

\* println!("Denoising complete: ..."); Ok(())
Summary ==
    /\ pc = "summary"
    /\ stdout' = Append(stdout, [processed |-> processed, skipped |-> skipped])
    /\ exit_code' = Some(0)
    /\ pc' = "done"
    /\ UNCHANGED <<args, fs, pos, input_path, output_path, status,
                   processed, skipped, stderr, dirs, validated, spawned>>

Next ==
    \/ CreateOutputDir
    \/ WalkNext
    \/ Validate
    \/ MapPath
    \/ CreateParent
    \/ Spawn
    \/ Account
    \/ Summary

Spec == Init /\ [][Next]_vars

\* ---------------------------------------------------------------- properties
SkipMsgs == {"Skipping invalid WAV file", "Denoising failed for"}
FatalMsgs == {"Failed to create output directory", "Failed to open WAV file",
              "Failed to compute relative path for",
              "Failed to create output directory for",
              "Failed to execute nnnoiseless for"}
InLoopBody == pc \in {"validate", "map", "create_parent", "spawn", "account"}

\* the name of p ends in the four characters ".wav"
EndsWithDotWav(p) ==
    /\ IsSome(FileName(p))
    /\ LET name == Unwrap(FileName(p))
       IN Len(name) >= 4 /\ SubSeq(name, Len(name) - 3, Len(name)) = DOT_WAV

\* the path of the regular file f relative to the input root
RelOf(f) ==
    IF fs.root = "file" THEN <<>>
    ELSE Universe[CHOOSE i \in fs.present \cap FileIds : EntryPath(args.input_dir, i) = f].rel

\* the spawns whose input argument is f
DispatchesOf(f) ==
    {i \in DOMAIN spawned : spawned[i].argv[Len(spawned[i].argv) - 1].path = f}

\* the regular files with extension wav that the walk yields without error
EncounteredWav ==
    LET w == WalkDir(args.input_dir, fs)
    IN {w[i].path : i \in {j \in DOMAIN w :
            w[j].ok /\ w[j].file_type = "file" /\ Extension(w[j].path) = Some(WAV)}}

\* the spawns whose exit status has been examined
Accounted == {i \in DOMAIN spawned : i < Len(spawned) \/ pc # "account"}

\* C1: in a run that reaches the summary, every regular file under the input
\* root whose name ends in .wav was either reported and counted in skipped, or
\* dispatched exactly once with (f, output root joined with its relative path);
\* none is dispatched twice.
C1_EveryWavFileHandled ==
    pc = "done" =>
        /\ skipped = Len(stderr)
        /\ \A f \in RegularFiles(args.input_dir, fs) :
              EndsWithDotWav(f) =>
                 /\ Cardinality(DispatchesOf(f)) <= 1
                 /\ \/ \E k \in DOMAIN stderr : stderr[k].path = f
                    \/ \E i \in DispatchesOf(f) :
                          spawned[i].argv[Len(spawned[i].argv)].path
                             = P(args.output_dir.abs, args.output_dir.comps \o RelOf(f))

\* C2: the counters start at zero and never decrease; a step raises their sum,
\* by one, exactly when a loop iteration ends without a fatal error; between
\* iterations the sum is the number of files handled, and at the summary it is
\* the number of .wav regular files the walk encountered.
C2_CountersMatchWalk ==
    /\ processed = 0 /\ skipped = 0
    /\ [][/\ processed' >= processed
          /\ skipped' >= skipped
          /\ (processed' + skipped') - (processed + skipped) \in {0, 1}
          /\ (processed' + skipped' = processed + skipped + 1)
                <=> (InLoopBody /\ pc' = "walk")]_vars
    /\ [](pc \in {"walk", "summary", "done"} => processed + skipped = pos)
    /\ [](pc = "done" => /\ processed + skipped = Cardinality(EncounteredWav)
                         /\ stdout = <<[processed |-> processed, skipped |-> skipped]>>)

\* C2 witness: a summary after one processed and one skipped file
C2_Witness == pc = "done" /\ processed = 1 /\ skipped = 1

\* C3: with no input root the run is fatal before any traversal: nothing is
\* examined or dispatched, no summary is printed and the exit is not zero.
C3_MissingRootIsFatal ==
    fs.root = "missing" =>
        /\ validated = <<>>
        /\ spawned = <<>>
        /\ stdout = <<>>
        /\ pc \notin {"summary", "done"}
        /\ exit_code # Some(0)

\* the fields in which a parsed header differs from mono, 16 kHz, 16 bit
Mismatch(spec) ==
    {n \in {"channels", "sample_rate", "bits_per_sample"} : spec[n] # ValidSpec[n]}
ReportedAs(p, msg) == \E k \in DOMAIN stderr : stderr[k] = [msg |-> msg, path |-> p]

\* C4: a validated file that parses is accepted (no diagnostic, no failure)
\* exactly when its header is mono, 16000 Hz and 16 bit; one that differs in
\* any field, be it a single one, is rejected with the skip diagnostic and is
\* not a failure; only an unparseable file fails.
C4_ValidateAcceptsExactTriple ==
    \A k \in DOMAIN validated :
        LET p == validated[k]
            c == ContentOf(args.input_dir, fs, p)
        IN IF ~IsSome(c)
           THEN ReportedAs(p, "Failed to open WAV file") /\ pc = "fatal"
           ELSE /\ ~ReportedAs(p, "Failed to open WAV file")
                /\ ReportedAs(p, "Skipping invalid WAV file") <=> Mismatch(Unwrap(c)) # {}
                /\ (k = Len(validated) /\ pc = "map") => Mismatch(Unwrap(c)) = {}

\* C4 witness: a file that differs from the triple in the sample width alone
\* has been rejected, after which another file was accepted
C4_Witness ==
    /\ pc = "map"
    /\ \E k \in DOMAIN validated :
          LET c == ContentOf(args.input_dir, fs, validated[k])
          IN IsSome(c) /\ Mismatch(Unwrap(c)) = {"bits_per_sample"}

\* C5: a child that exits non-zero (or is killed) is not fatal: the item is
\* counted in skipped, not in processed, its path is reported, and the walk goes
\* on; processed counts exactly the children whose exit status is zero.
C5_BackendFailureIsSkip ==
    /\ [](/\ processed = Cardinality({i \in Accounted :
                spawned[i].status = [kind |-> "exit", code |-> 0]})
          /\ \A i \in Accounted :
                spawned[i].status # [kind |-> "exit", code |-> 0]
                   <=> ReportedAs(spawned[i].input, "Denoising failed for")
          /\ skipped = Cardinality({k \in DOMAIN stderr : stderr[k].msg \in SkipMsgs}))
    /\ [][pc = "account" =>
            /\ pc' = "walk"
            /\ exit_code' = None
            /\ (Unwrap(status).code # 0 =>
                   skipped' = skipped + 1 /\ processed' = processed)]_vars
    /\ [](pc = "done" => exit_code = Some(0))

\* C5 witness: the summary of a run whose only file failed in the child with
\* exit code 1: 0 processed, 1 skipped, exit 0
C5_Witness ==
    /\ pc = "done"
    /\ Len(spawned) = 1
    /\ spawned[1].status = [kind |-> "exit", code |-> 1]
    /\ stdout = <<[processed |-> 0, skipped |-> 1]>>
    /\ exit_code = Some(0)

\* C6: a fatal error ends the run at once with a non-zero exit: the error is
\* the last thing reported, nothing is validated, dispatched, counted or
\* printed after it, and no summary exists; an unparseable file is fatal.
C6_FatalEndsRun ==
    /\ [](/\ \A k \in DOMAIN stderr :
                stderr[k].msg \in FatalMsgs =>
                   pc = "fatal" /\ k = Len(stderr) /\ stdout = <<>> /\ exit_code = Some(1)
          /\ \A k \in DOMAIN validated :
                ~IsSome(ContentOf(args.input_dir, fs, validated[k])) =>
                   pc = "fatal" /\ k = Len(validated)
          /\ pc = "fatal" => stderr # <<>> /\ stderr[Len(stderr)].msg \in FatalMsgs)
    /\ [][pc # "fatal"]_vars

\* C6 witness: an unparseable header stopped the run while a later .wav file,
\* one with a valid header, was still to come
C6_Witness ==
    /\ pc = "fatal"
    /\ stderr[Len(stderr)].msg = "Failed to open WAV file"
    /\ pos < Len(Entries)
    /\ ContentOf(args.input_dir, fs, Entries[pos + 1].path) = Some(ValidSpec)

\* C7: whenever the child is about to be spawned, and for every spawn made, the
\* parent directory of the output path exists; a failure to create it is
\* followed by no spawn for that output.
C7_ParentBeforeDispatch ==
    /\ pc = "spawn" =>
          LET parent == Parent(Unwrap(output_path))
          IN IsSome(parent) => DirExists(Unwrap(parent))
    /\ \A i \in DOMAIN spawned :
          /\ spawned[i].parent_exists
          /\ Len(spawned[i].output.comps) > 1 =>
                P(spawned[i].output.abs,
                  SubSeq(spawned[i].output.comps, 1, Len(spawned[i].output.comps) - 1)) \in dirs
          /\ ~ReportedAs(spawned[i].output, "Failed to create output directory for")

\* C7 witness: a spawn whose output lies in a subdirectory of the output root
C7_Witness ==
    \E i \in DOMAIN spawned : Len(spawned[i].output.comps) = 3

\* C8: no two spawns of a run share an output path, and the map from the
\* selected files to their output paths is injective.
C8_OutputPathsDistinct ==
    /\ \A i, j \in DOMAIN spawned :
          i # j => spawned[i].argv[Len(spawned[i].argv)] # spawned[j].argv[Len(spawned[j].argv)]
    /\ \A i \in DOMAIN spawned : spawned[i].output = spawned[i].argv[Len(spawned[i].argv)].path
    /\ \A i, j \in 1..pos :
          (i # j /\ Entries[i].path # Entries[j].path) =>
             \A a, b \in DOMAIN spawned :
                (spawned[a].input = Entries[i].path /\ spawned[b].input = Entries[j].path)
                   => spawned[a].output # spawned[b].output

\* C8 witness: two files of the same name in different directories were both
\* dispatched
C8_Witness ==
    \E i, j \in DOMAIN spawned :
        /\ i # j
        /\ FileName(spawned[i].input) = FileName(spawned[j].input)

\* C9: the child's arguments are the flag --model=<path> first exactly when a
\* model path is configured, then the input path, then the output path, and
\* nothing else; the executable is the configured path or the name nnnoiseless.
C9_ArgvShape ==
    \A i \in DOMAIN spawned :
        LET d == spawned[i]
            n == Len(d.argv)
        IN /\ n = (IF args.model_path = None THEN 2 ELSE 3)
           /\ d.argv[n - 1] = [prefix |-> "", path |-> d.input]
           /\ d.argv[n] = [prefix |-> "", path |-> d.output]
           /\ args.model_path # None =>
                 d.argv[1] = [prefix |-> "--model=", path |-> args.model_path[1]]
           /\ d.program = (IF args.nnnoiseless_path = None
                           THEN [abs |-> FALSE, comps |-> <<NNNOISELESS>>]
                           ELSE args.nnnoiseless_path[1])

\* C9 witness: a spawn with a model path and the default executable
C9_Witness ==
    /\ spawned # <<>>
    /\ args.model_path # None
    /\ args.nnnoiseless_path = None

\* C10: every input path and output path handed to the child is absolute,
\* whatever roots were given on the command line.
C10_DispatchedPathsAbsolute ==
    \A i \in DOMAIN spawned :
        \A k \in DOMAIN spawned[i].argv :
            spawned[i].argv[k].prefix = "" => spawned[i].argv[k].path.abs

====
